---------------------------- MODULE Spec2Model ----------------------------
(***************************************************************************)
(* A model of the HTTP/1.1 server of this repository: the wire codec       *)
(* (src/src/http.rs), the router and its handlers (src/src/router.rs) and  *)
(* the accept loop and per-connection loop (src/src/server.rs).            *)
(*                                                                         *)
(* A byte string is a sequence of one-character strings.  A Rust String is *)
(* modelled by its UTF-8 bytes, so that len() and as_bytes() count bytes.  *)
(* The token "<FF>" stands for a byte that is not valid UTF-8; the tokens  *)
(* "<EF>", "<BF>", "<BD>" are the three bytes of U+FFFD.                   *)
(***************************************************************************)
EXTENDS Integers, Sequences, FiniteSets, TLC

(***************************************************************************)
(* Bounds of the model.                                                    *)
(***************************************************************************)
NumConns == 2        \* connections the accept loop may accept
MaxRequests == 2     \* messages the clients send, all connections together
MaxSplits == 1       \* socket reads that return only part of a message

(***************************************************************************)
(* Byte-string helpers (Rust str / slice primitives used by the code).     *)
(***************************************************************************)
Drop(s, n) == SubSeq(s, n + 1, Len(s))

Take(s, n) == SubSeq(s, 1, n)

StartsWith(s, p) == Len(p) <= Len(s) /\ SubSeq(s, 1, Len(p)) = p

\* str::find: index of the first occurrence of pat in s, 0 when there is none
Find(s, pat) ==
    LET hits == {i \in 1 .. (Len(s) - Len(pat) + 1) : SubSeq(s, i, i + Len(pat) - 1) = pat}
    IN  IF hits = {} THEN 0 ELSE CHOOSE i \in hits : \A j \in hits : i <= j

\* str::split(pat): the pieces between the non-overlapping matches of pat,
\* left to right; n matches give n + 1 pieces
RECURSIVE Split(_, _)
Split(s, pat) ==
    LET i == Find(s, pat)
    IN  IF i = 0 THEN <<s>>
        ELSE <<SubSeq(s, 1, i - 1)>> \o Split(Drop(s, i + Len(pat) - 1), pat)

Whitespace == {" ", "\t", "\r", "\n"}

\* str::split_whitespace: the maximal runs of non-whitespace characters
RECURSIVE SplitWhitespace(_)
SplitWhitespace(s) ==
    IF s = <<>> THEN <<>>
    ELSE IF s[1] \in Whitespace THEN SplitWhitespace(Tail(s))
    ELSE LET ws == {i \in 1 .. Len(s) : s[i] \in Whitespace}
             e  == IF ws = {} THEN Len(s) + 1 ELSE CHOOSE i \in ws : \A j \in ws : i <= j
         IN  <<SubSeq(s, 1, e - 1)>> \o SplitWhitespace(Drop(s, e - 1))

\* str::trim_start_matches(pat): strips pat from the front repeatedly
RECURSIVE TrimStartMatches(_, _)
TrimStartMatches(s, pat) ==
    IF pat # <<>> /\ StartsWith(s, pat) THEN TrimStartMatches(Drop(s, Len(pat)), pat) ELSE s

\* str::trim: strips leading and trailing whitespace
RECURSIVE Trim(_)
Trim(s) ==
    IF s = <<>> THEN s
    ELSE IF s[1] \in Whitespace THEN Trim(Tail(s))
    ELSE IF s[Len(s)] \in Whitespace THEN Trim(SubSeq(s, 1, Len(s) - 1))
    ELSE s

RECURSIVE Concat(_)
Concat(ss) == IF ss = <<>> THEN <<>> ELSE Head(ss) \o Concat(Tail(ss))

Digits == <<"0", "1", "2", "3", "4", "5", "6", "7", "8", "9">>

DigitSet == {Digits[i] : i \in 1 .. 10}

DigitVal(ch) == (CHOOSE i \in 1 .. 10 : Digits[i] = ch) - 1

\* usize's Display: the decimal digits of n
RECURSIVE ToDecimal(_)
ToDecimal(n) == IF n < 10 THEN <<Digits[n + 1]>> ELSE ToDecimal(n \div 10) \o <<Digits[(n % 10) + 1]>>

RECURSIVE DecimalValue(_)
DecimalValue(s) ==
    IF s = <<>> THEN 0 ELSE 10 * DecimalValue(SubSeq(s, 1, Len(s) - 1)) + DigitVal(s[Len(s)])

\* str::parse::<usize>: an optional leading '+', then one or more decimal
\* digits; -1 stands for Err.  (Overflow of usize is out of reach of the
\* digit strings of this model.)
ParseUsize(s) ==
    LET d == IF s # <<>> /\ s[1] = "+" THEN Tail(s) ELSE s
    IN  IF d = <<>> \/ \E i \in 1 .. Len(d) : d[i] \notin DigitSet THEN -1
        ELSE DecimalValue(d)

\* String::from_utf8_lossy: every byte that is not valid UTF-8 becomes
\* U+FFFD, whose UTF-8 encoding has three bytes
RECURSIVE FromUtf8Lossy(_)
FromUtf8Lossy(bytes) ==
    IF bytes = <<>> THEN <<>>
    ELSE (IF bytes[1] = "<FF>" THEN <<"<EF>", "<BF>", "<BD>">> ELSE <<bytes[1]>>)
         \o FromUtf8Lossy(Tail(bytes))

(***************************************************************************)
(* Constants of src/src/http.rs.                                           *)
(***************************************************************************)
CRLF == <<"\r", "\n">>

HTTP_VERSION_1_1 == <<"H", "T", "T", "P", "/", "1", ".", "1">>

KEEP_ALIVE == <<"k", "e", "e", "p", "-", "a", "l", "i", "v", "e">>

CONTENT_ENCODING == <<"C", "o", "n", "t", "e", "n", "t", "-", "E", "n", "c", "o", "d", "i", "n", "g">>

ACCEPT_ENCODING == <<"A", "c", "c", "e", "p", "t", "-", "E", "n", "c", "o", "d", "i", "n", "g">>

ENCODING_GZIP == <<"g", "z", "i", "p">>

CONTENT_LENGTH == <<"C", "o", "n", "t", "e", "n", "t", "-", "L", "e", "n", "g", "t", "h">>

CONNECTION == <<"C", "o", "n", "n", "e", "c", "t", "i", "o", "n">>

CONTENT_TYPE == <<"C", "o", "n", "t", "e", "n", "t", "-", "T", "y", "p", "e">>

CT_TEXT_PLAIN == <<"t", "e", "x", "t", "/", "p", "l", "a", "i", "n">>

USER_AGENT == <<"U", "s", "e", "r", "-", "A", "g", "e", "n", "t">>

CT_APPLICATION_OCTET_STREAM ==
    <<"a", "p", "p", "l", "i", "c", "a", "t", "i", "o", "n", "/",
      "o", "c", "t", "e", "t", "-", "s", "t", "r", "e", "a", "m">>

METHOD_GET == <<"G", "E", "T">>

METHOD_POST == <<"P", "O", "S", "T">>

HeaderSep == <<":", " ">>

(***************************************************************************)
(* Header maps (HashMap<String, String>): functions from key to value.     *)
(***************************************************************************)
NoHeaders == [k \in {} |-> <<>>]

\* HashMap::insert: a later insert of the same key overwrites the former
Insert(h, k, v) == [x \in (DOMAIN h) \cup {k} |-> IF x = k THEN v ELSE h[x]]

HasKey(h, k) == k \in DOMAIN h

(***************************************************************************)
(* Request parsing: RequestLine::from_line and HttpRequest::from_bytes.    *)
(***************************************************************************)
NoLine == [method |-> <<>>, path |-> <<>>, version |-> <<>>]

NoRequest == [line |-> NoLine, headers |-> NoHeaders, connection |-> <<>>, body |-> <<>>]

Fail(e) == [ok |-> FALSE, err |-> e, val |-> <<>>]

Ok(v) == [ok |-> TRUE, err |-> "", val |-> v]

FromLine(line) ==
    LET toks == SplitWhitespace(line)
    IN  IF Len(toks) < 1 THEN Fail("MissingMethod")
        ELSE IF Len(toks) < 2 THEN Fail("MissingPath")
        ELSE IF Len(toks) < 3 THEN Fail("MissingVersion")
        ELSE IF toks[3] # HTTP_VERSION_1_1 THEN Fail("UnsupportedVersion")
        ELSE Ok([method |-> toks[1], path |-> toks[2], version |-> toks[3]])

\* parse_headers: each line is split on ": "; the first piece is the key and
\* the second piece the value
RECURSIVE ParseHeadersFrom(_, _)
ParseHeadersFrom(lines, acc) ==
    IF lines = <<>> \/ Head(lines) = <<>> THEN Ok(acc)
    ELSE LET parts == Split(Head(lines), HeaderSep)
         IN  IF Len(parts) < 2 THEN Fail("MissingHeaderValue")
             ELSE ParseHeadersFrom(Tail(lines), Insert(acc, parts[1], parts[2]))

ParseHeaders(header_lines) == ParseHeadersFrom(header_lines, NoHeaders)

ParseBody(headers, body_lines) ==
    LET content_length ==
            IF HasKey(headers, CONTENT_LENGTH) THEN ParseUsize(headers[CONTENT_LENGTH]) ELSE 0
        body == Concat(body_lines)
    IN  IF content_length < 0 THEN Fail("InvalidContentLength")
        ELSE IF content_length # 0
             THEN IF Len(body) # content_length THEN Fail("InvalidContentLength") ELSE Ok(body)
             ELSE Ok(<<>>)

\* HttpRequest::new: connection is the Connection header, "keep-alive" when absent
NewRequest(line, headers, body) ==
    [line |-> line, headers |-> headers,
     connection |-> IF HasKey(headers, CONNECTION) THEN headers[CONNECTION] ELSE KEEP_ALIVE,
     body |-> body]

FromLines(request_line, header_lines, body_lines) ==
    LET line == FromLine(request_line)
    IN  IF ~line.ok THEN Fail(line.err)
        ELSE LET headers == ParseHeaders(header_lines)
             IN  IF ~headers.ok THEN Fail(headers.err)
                 ELSE LET body == ParseBody(headers.val, body_lines)
                      IN  IF ~body.ok THEN Fail(body.err)
                          ELSE Ok(NewRequest(line.val, headers.val, body.val))

\* take_while(|line| !line.is_empty()) over the lines after the first
RECURSIVE TakeWhileNonEmpty(_)
TakeWhileNonEmpty(lines) ==
    IF lines = <<>> \/ Head(lines) = <<>> THEN <<>>
    ELSE <<Head(lines)>> \o TakeWhileNonEmpty(Tail(lines))

FromStrings(strings) ==
    IF strings = <<>> THEN Fail("MissingRequestLine")
    ELSE LET headers == TakeWhileNonEmpty(Tail(strings))
             body    == Drop(strings, 1 + Len(headers) + 1)
         IN  FromLines(Head(strings), headers, body)

FromString(string) == FromStrings(Split(string, CRLF))

FromBytes(bytes) == FromString(FromUtf8Lossy(bytes))

(***************************************************************************)
(* Responses: StatusCode, HttpResponse and HttpResponse::to_bytes.         *)
(***************************************************************************)
STATUS_OK == 200

STATUS_CREATED == 201

STATUS_NOT_FOUND == 404

STATUS_NOT_ALLOWED == 405

STATUS_INTERNAL_SERVER_ERROR == 500

\* StatusCode::as_str
StatusAsStr(code) ==
    CASE code = 200 -> <<"2", "0", "0", " ", "O", "K">>
      [] code = 201 -> <<"2", "0", "1", " ", "C", "r", "e", "a", "t", "e", "d">>
      [] code = 404 -> <<"4", "0", "4", " ", "N", "o", "t", " ", "F", "o", "u", "n", "d">>
      [] code = 405 -> <<"4", "0", "5", " ", "M", "e", "t", "h", "o", "d", " ",
                         "N", "o", "t", " ", "A", "l", "l", "o", "w", "e", "d">>
      [] OTHER      -> <<"5", "0", "0", " ", "I", "n", "t", "e", "r", "n", "a", "l", " ",
                         "S", "e", "r", "v", "e", "r", " ", "E", "r", "r", "o", "r">>

NewResponse(status_code, body, headers) ==
    [status_code |-> status_code, headers |-> headers, body |-> body]

ResponseOk(body, headers) == NewResponse(STATUS_OK, body, headers)

FromStatusCode(status_code) == NewResponse(status_code, <<>>, NoHeaders)

Created == FromStatusCode(STATUS_CREATED)

NotFound == FromStatusCode(STATUS_NOT_FOUND)

MethodNotAllowed == FromStatusCode(STATUS_NOT_ALLOWED)

InternalServerError == FromStatusCode(STATUS_INTERNAL_SERVER_ERROR)

\* flate2's GzEncoder at the default level, as a framing: the ten bytes of the
\* gzip member header, the deflate stream (one block marker and the data) and
\* the eight bytes of CRC-32 and ISIZE.  The output is never the input and has
\* its own length.
GzEncode(body) ==
    <<"<1F>", "<8B>", "<08>", "<00>", "<00>", "<00>", "<00>", "<00>", "<00>", "<03>">>
    \o <<"<01>">> \o body
    \o <<"<crc>", "<crc>", "<crc>", "<crc>">> \o <<Digits[(Len(body) % 10) + 1], "<00>", "<00>", "<00>">>

\* encode_body_content: gzip when the Content-Encoding header is "gzip"
EncodeBodyContent(resp) ==
    IF HasKey(resp.headers, CONTENT_ENCODING) /\ resp.headers[CONTENT_ENCODING] = ENCODING_GZIP
    THEN GzEncode(resp.body)
    ELSE resp.body

\* the iteration orders of a HashMap: every enumeration of its keys
Orders(h) ==
    {o \in [1 .. Cardinality(DOMAIN h) -> DOMAIN h] : \A i, j \in DOMAIN o : i # j => o[i] # o[j]}

RECURSIVE HeaderLines(_, _)
HeaderLines(h, order) ==
    IF order = <<>> THEN <<>>
    ELSE Head(order) \o HeaderSep \o h[Head(order)] \o CRLF \o HeaderLines(h, Tail(order))

\* to_bytes with a body the length of which is taken before encoding
ToBytesLogicalLength(resp, order) ==
    LET head == HTTP_VERSION_1_1 \o <<" ">> \o StatusAsStr(resp.status_code) \o CRLF
                \o HeaderLines(resp.headers, order)
    IN  IF resp.body = <<>> THEN head \o CRLF
        ELSE head \o CONTENT_LENGTH \o HeaderSep \o ToDecimal(Len(resp.body)) \o CRLF
             \o CRLF \o EncodeBodyContent(resp)

\* HttpResponse::to_bytes; order is the iteration order of the header map
ToBytes(resp, order) ==
    LET head == HTTP_VERSION_1_1 \o <<" ">> \o StatusAsStr(resp.status_code) \o CRLF
                \o HeaderLines(resp.headers, order)
        body == EncodeBodyContent(resp)
    IN  IF resp.body = <<>> THEN head \o CRLF
        ELSE head \o CONTENT_LENGTH \o HeaderSep \o ToDecimal(Len(body)) \o CRLF
             \o CRLF \o body

(***************************************************************************)
(* The file storage behind the /files handler (std::fs under pub_dir).     *)
(* A store maps each file name to its contents, or to Absent.              *)
(***************************************************************************)
Absent == <<"<absent>">>

FileNames == {<<"f">>, <<"g">>}

EmptyStore == [n \in FileNames |-> Absent]

\* the file that pub_dir + "/" + file names: leading slashes of file collapse
\* into the separator; anything that is not a plain file name of pub_dir
\* (empty, or below a directory that does not exist) names no file
FsKey(file) == TrimStartMatches(file, <<"/">>)

\* std::fs::read: Err when there is no such file
FsRead(store, file) ==
    IF FsKey(file) \in FileNames /\ store[FsKey(file)] # Absent
    THEN Ok(store[FsKey(file)])
    ELSE Fail("io")

IoOk == -2

IoCreateErr == -1

\* the outcomes of std::fs::write (create or truncate, then write_all):
\* success, a failure to create, or a failure after k bytes were written
IoOutcomes(body) == {IoOk, IoCreateErr} \cup (0 .. (IF body = <<>> THEN 0 ELSE Len(body) - 1))

\* File::create inside std::fs::write can succeed: the file is a plain name
CanCreate(file) == FsKey(file) \in FileNames

\* File::create inside std::fs::write: the file is created, or truncated
FsCreate(store, file) == [store EXCEPT ![FsKey(file)] = <<>>]

\* data written at offset 0 over content
WriteAt(content, data) == data \o Drop(content, Len(data))

\* write_all, were a success to leave the last byte unwritten
FsWriteAllShort(store, file, body, io) ==
    IF io = IoOk
    THEN [ok |-> TRUE,
          store |-> [store EXCEPT ![FsKey(file)] = WriteAt(@, Take(body, Len(body) - 1))]]
    ELSE [ok |-> FALSE, store |-> [store EXCEPT ![FsKey(file)] = WriteAt(@, Take(body, io))]]

\* write_all inside std::fs::write, on the file File::create opened: all of
\* body is written from offset 0, or io bytes of it before a failure
FsWriteAll(store, file, body, io) ==
    IF io = IoOk
    THEN [ok |-> TRUE, store |-> [store EXCEPT ![FsKey(file)] = WriteAt(@, body)]]
    ELSE [ok |-> FALSE, store |-> [store EXCEPT ![FsKey(file)] = WriteAt(@, Take(body, io))]]

\* std::fs::write with outcome io: File::create, then write_all
FsWrite(store, file, body, io) ==
    IF ~CanCreate(file) \/ io = IoCreateErr
    THEN [ok |-> FALSE, store |-> store]
    ELSE FsWriteAll(FsCreate(store, file), file, body, io)

(***************************************************************************)
(* The router and the handlers of make_router.                             *)
(***************************************************************************)
\* accept_encoding: sets Content-Encoding: gzip when a token of the
\* Accept-Encoding header is "gzip"
AcceptEncoding(request, headers) ==
    IF HasKey(request.headers, ACCEPT_ENCODING)
    THEN LET pieces == Split(request.headers[ACCEPT_ENCODING], <<",", " ">>)
         IN  IF \E i \in 1 .. Len(pieces) : Trim(pieces[i]) = ENCODING_GZIP
             THEN Insert(headers, CONTENT_ENCODING, ENCODING_GZIP)
             ELSE headers
    ELSE headers

\* parse_path stripping a single leading '/'
ParsePathStripOne(path) ==
    Split(IF StartsWith(path, <<"/">>) THEN Tail(path) ELSE path, <<"/">>)[1]

\* Router::parse_path: trim_start_matches('/'), then the text before the next '/'
ParsePath(path) == Split(TrimStartMatches(path, <<"/">>), <<"/">>)[1]

RootPath == <<"/">>

EchoPath == <<"/", "e", "c", "h", "o">>

UserAgentPath == <<"/", "u", "s", "e", "r", "-", "a", "g", "e", "n", "t">>

FilesPath == <<"/", "f", "i", "l", "e", "s">>

\* the routes in the order make_router registers them
Routes == <<RootPath, EchoPath, UserAgentPath, FilesPath>>

Handled(resp, store) == [resp |-> resp, store |-> store]

RootHandler(request, store) ==
    IF request.line.method = METHOD_GET
    THEN Handled(ResponseOk(<<>>, NoHeaders), store)
    ELSE Handled(MethodNotAllowed, store)

EchoHandler(request, store) ==
    IF request.line.method = METHOD_GET
    THEN LET path_without_prefix == TrimStartMatches(request.line.path, EchoPath \o <<"/">>)
             headers == AcceptEncoding(request, Insert(NoHeaders, CONTENT_TYPE, CT_TEXT_PLAIN))
         IN  Handled(ResponseOk(path_without_prefix, headers), store)
    ELSE Handled(MethodNotAllowed, store)

UserAgentHandler(request, store) ==
    IF request.line.method = METHOD_GET
    THEN LET user_agent == IF HasKey(request.headers, USER_AGENT)
                           THEN request.headers[USER_AGENT] ELSE <<>>
             headers == AcceptEncoding(request, Insert(NoHeaders, CONTENT_TYPE, CT_TEXT_PLAIN))
         IN  Handled(ResponseOk(user_agent, headers), store)
    ELSE Handled(MethodNotAllowed, store)

\* the /files handler; io is the outcome of std::fs::write
FilesHandler(request, store, io) ==
    LET headers == AcceptEncoding(request,
                       Insert(NoHeaders, CONTENT_TYPE, CT_APPLICATION_OCTET_STREAM))
        file == TrimStartMatches(request.line.path, FilesPath \o <<"/">>)
    IN  IF request.line.method = METHOD_GET
        THEN LET r == FsRead(store, file)
             IN  IF r.ok THEN Handled(NewResponse(STATUS_OK, r.val, headers), store)
                 ELSE Handled(NotFound, store)
        ELSE IF request.line.method = METHOD_POST
        THEN LET w == FsWrite(store, file, request.body, io)
             IN  IF w.ok THEN Handled(Created, w.store)
                 ELSE Handled(InternalServerError, w.store)
        ELSE Handled(MethodNotAllowed, store)

\* the index of the first route whose first segment equals the request's, 0 when none
MatchRoute(request) ==
    LET hits == {i \in 1 .. Len(Routes) : ParsePath(request.line.path) = ParsePath(Routes[i])}
    IN  IF hits = {} THEN 0 ELSE CHOOSE i \in hits : \A j \in hits : i <= j

\* Router::resolve, with the store it reads and the store it leaves
Resolve(request, store, io) ==
    LET r == MatchRoute(request)
    IN  CASE r = 1 -> RootHandler(request, store)
          [] r = 2 -> EchoHandler(request, store)
          [] r = 3 -> UserAgentHandler(request, store)
          [] r = 4 -> FilesHandler(request, store, io)
          [] OTHER -> Handled(NotFound, store)

(***************************************************************************)
(* Inputs of the codec specification: request fixtures written to wire     *)
(* bytes the way the tests of src/src/router.rs format them, raw inputs    *)
(* that are no request, and responses.                                     *)
(***************************************************************************)
MaxBodyLen == 4      \* longest request body of a fixture

METHOD_PUT == <<"P", "U", "T">>

FixtureMethods == {METHOD_GET, METHOD_POST, METHOD_PUT}

FixturePaths ==
    {RootPath,
     EchoPath,
     EchoPath \o <<"/", "a", "b">>,
     <<"/">> \o EchoPath \o <<"/", "a", "b">>,
     UserAgentPath,
     FilesPath \o <<"/", "f">>,
     <<"/", "n", "o", "p", "e">>}

CloseValue == <<"c", "l", "o", "s", "e">>

KeepAliveTitleCase == <<"K", "e", "e", "p", "-", "A", "l", "i", "v", "e">>

\* the header lists of a fixture, Content-Length apart: <<key, value>> pairs
FixtureHeaders ==
    {<<>>,
     <<<<CONNECTION, CloseValue>>>>,
     <<<<CONNECTION, KeepAliveTitleCase>>>>,
     <<<<CONNECTION, KEEP_ALIVE>>, <<ACCEPT_ENCODING, ENCODING_GZIP>>>>,
     <<<<USER_AGENT, <<"a", ":", " ", "b">>>>>>,
     <<<<USER_AGENT, <<>>>>>>}

\* the Content-Length header of a fixture: none, a number or a non-number
FixtureContentLengths ==
    {<<>>} \cup {<<<<CONTENT_LENGTH, ToDecimal(n)>>>> : n \in 0 .. MaxBodyLen}
           \cup {<<<<CONTENT_LENGTH, <<"x">>>>>>, <<<<CONTENT_LENGTH, <<"-", "1">>>>>>}

AllBodies == {<<>>, <<"a">>, <<"a", "b">>, <<"<FF>">>, <<"a", "\r", "\n", "b">>,
              <<"a", "b", "c", "d", "e">>}

FixtureBodies == {b \in AllBodies : Len(b) <= MaxBodyLen}

Fixtures ==
    {[method |-> m, path |-> p, headers |-> h \o cl, body |-> b] :
        m \in FixtureMethods, p \in FixturePaths, h \in FixtureHeaders,
        cl \in FixtureContentLengths, b \in FixtureBodies}

RECURSIVE FixtureHeaderLines(_)
FixtureHeaderLines(hs) ==
    IF hs = <<>> THEN <<>>
    ELSE Head(hs)[1] \o HeaderSep \o Head(hs)[2] \o CRLF \o FixtureHeaderLines(Tail(hs))

\* the wire bytes of a fixture: request line, headers, blank line, body verbatim
SerializeRequest(fx) ==
    fx.method \o <<" ">> \o fx.path \o <<" ">> \o HTTP_VERSION_1_1 \o CRLF
    \o FixtureHeaderLines(fx.headers) \o CRLF \o fx.body

DEFLATE == <<"d", "e", "f", "l", "a", "t", "e">>

\* values of an Accept-Encoding request header
AcceptEncodingValues ==
    {<<>>,
     DEFLATE,
     <<" ">> \o ENCODING_GZIP \o <<" ">>,
     ENCODING_GZIP \o <<",", " ">> \o DEFLATE,
     DEFLATE \o <<",", " ">> \o ENCODING_GZIP,
     DEFLATE \o <<" ", ",", " ", " ">> \o ENCODING_GZIP,
     ENCODING_GZIP \o <<",">> \o DEFLATE,
     DEFLATE \o <<",">> \o ENCODING_GZIP,
     <<"G", "Z", "I", "P">>,
     ENCODING_GZIP \o <<"2">>}

\* GET requests with an Accept-Encoding header, one for every route
NegotiationFixtures ==
    {[method |-> METHOD_GET, path |-> p, headers |-> <<<<ACCEPT_ENCODING, v>>>>, body |-> <<>>] :
        p \in {RootPath, EchoPath \o <<"/", "a", "b">>, UserAgentPath, FilesPath \o <<"/", "f">>},
        v \in AcceptEncodingValues}

NoFixture == [method |-> <<>>, path |-> <<>>, headers |-> <<>>, body |-> <<>>]

\* inputs that are no request
RawMalformed ==
    {<<>>,
     CRLF \o CRLF,
     METHOD_GET \o CRLF \o CRLF,
     METHOD_GET \o <<" ", "/">> \o CRLF \o CRLF,
     METHOD_GET \o <<" ", "/", " ", "H", "T", "T", "P", "/", "1", ".", "0">> \o CRLF \o CRLF,
     METHOD_GET \o <<" ", "/", " ">> \o HTTP_VERSION_1_1 \o CRLF \o <<"H", "o", "s", "t">> \o CRLF \o CRLF}

ResponseHeaderSets ==
    {NoHeaders,
     Insert(NoHeaders, CONTENT_TYPE, CT_TEXT_PLAIN),
     Insert(NoHeaders, CONTENT_ENCODING, ENCODING_GZIP),
     Insert(Insert(NoHeaders, CONTENT_TYPE, CT_TEXT_PLAIN), CONTENT_ENCODING, ENCODING_GZIP),
     Insert(Insert(NoHeaders, CONTENT_TYPE, CT_TEXT_PLAIN), CONTENT_ENCODING, <<"b", "r">>)}

StatusCodes == {STATUS_OK, STATUS_CREATED, STATUS_NOT_FOUND, STATUS_NOT_ALLOWED,
                STATUS_INTERNAL_SERVER_ERROR}

Responses ==
    {NewResponse(sc, b, h) : sc \in StatusCodes, b \in AllBodies, h \in ResponseHeaderSets}

Stores == {EmptyStore, [EmptyStore EXCEPT ![<<"f">>] = <<"a", "b">>]}

(***************************************************************************)
(* Inputs of the server specification: the requests a client may send.     *)
(***************************************************************************)
Wire(method, path, headers, body) ==
    SerializeRequest([method |-> method, path |-> path, headers |-> headers, body |-> body])

WireGetRoot == Wire(METHOD_GET, RootPath, <<<<CONNECTION, KEEP_ALIVE>>>>, <<>>)

WireGetFileClose == Wire(METHOD_GET, FilesPath \o <<"/", "f">>, <<<<CONNECTION, CloseValue>>>>, <<>>)

WirePostFile ==
    Wire(METHOD_POST, FilesPath \o <<"/", "f">>, <<<<CONTENT_LENGTH, <<"2">>>>>>, <<"a", "b">>)

WireTitleCase == Wire(METHOD_GET, <<"/", "x">>, <<<<CONNECTION, KeepAliveTitleCase>>>>, <<>>)

WireNoVersion == METHOD_GET \o <<" ", "/">> \o CRLF \o CRLF

ClientWires ==
    {WireGetRoot, WireGetFileClose, WirePostFile, WireTitleCase, WireNoVersion}

(***************************************************************************)
(* State.                                                                  *)
(*   listener   the listening socket of Server::listen                     *)
(*   pc         where each connection's handle_connection task stands      *)
(*   wire       bytes a client has sent that the server has not read, as   *)
(*              the messages they were sent in                             *)
(*   closed     whether the client has closed its end                      *)
(*   cur        the request a connection is serving                        *)
(*   pend       the response a connection is about to write                *)
(*   out        the responses written to each socket                       *)
(*   result     what handle_connection returned                            *)
(*   files      the file storage under the public directory                *)
(*   cause, posted, before, nsent, splits                                  *)
(*              history: why each loop ended, the outcome of the last POST *)
(*              to each file, what a file held when a write in progress    *)
(*              opened it, and the numbers of messages sent and of partial *)
(*              reads                                                      *)
(*   cx         the state of the codec specification: one input taken      *)
(*              through parsing, routing and serialization                 *)
(***************************************************************************)
VARIABLES listener, pc, wire, closed, cur, pend, out, result, files,
          cause, posted, before, nsent, splits, cx

serverVars == <<listener, pc, wire, closed, cur, pend, out, result, files,
                cause, posted, before, nsent, splits>>

vars == <<serverVars, cx>>

Conns == 1 .. NumConns

NoPend == [resp |-> NotFound, bytes |-> <<>>]

NeverPosted == [state |-> "never", body |-> <<>>]

\* no write in progress
NoWrite == <<"<none>">>

ServerInit ==
    /\ listener = "unbound"
    /\ pc = [c \in Conns |-> "unaccepted"]
    /\ wire = [c \in Conns |-> <<>>]
    /\ closed = [c \in Conns |-> FALSE]
    /\ cur = [c \in Conns |-> NoRequest]
    /\ pend = [c \in Conns |-> NoPend]
    /\ out = [c \in Conns |-> <<>>]
    /\ result = [c \in Conns |-> "running"]
    /\ files = EmptyStore
    /\ cause = [c \in Conns |-> "none"]
    /\ posted = [n \in FileNames |-> NeverPosted]
    /\ before = [c \in Conns |-> NoWrite]
    /\ nsent = 0
    /\ splits = 0

NoOrder == <<>>

CxStart(stage, fx, raw, store, resp) ==
    [stage |-> stage, fx |-> fx, raw |-> raw, parsed |-> Fail(""), request |-> NoRequest,
     store |-> store, io |-> IoOk, handled |-> Handled(resp, store), order |-> NoOrder,
     bytes |-> <<>>]

CodecInit ==
    /\ \/ \E fx \in Fixtures \cup NegotiationFixtures, st \in Stores :
              cx = CxStart("raw", fx, SerializeRequest(fx), st, NotFound)
       \/ \E raw \in RawMalformed : cx = CxStart("raw", NoFixture, raw, EmptyStore, NotFound)
       \/ \E resp \in Responses : cx = CxStart("resolved", NoFixture, <<>>, EmptyStore, resp)
    /\ ServerInit

\* HttpRequest::from_bytes applied to the input
CodecParse ==
    /\ cx.stage = "raw"
    /\ LET r == FromBytes(cx.raw)
       IN  cx' = [cx EXCEPT !.stage = IF r.ok THEN "parsed" ELSE "rejected",
                            !.parsed = [r EXCEPT !.val = <<>>],
                            !.request = IF r.ok THEN r.val ELSE NoRequest]
    /\ UNCHANGED serverVars

\* Router::resolve applied to the parsed request
CodecResolve ==
    /\ cx.stage = "parsed"
    /\ \E io \in IoOutcomes(cx.request.body) :
          cx' = [cx EXCEPT !.stage = "resolved", !.io = io,
                           !.handled = Resolve(cx.request, cx.store, io)]
    /\ UNCHANGED serverVars

\* HttpResponse::to_bytes applied to the response
CodecSerialize ==
    /\ cx.stage = "resolved"
    /\ \E order \in Orders(cx.handled.resp.headers) :
          cx' = [cx EXCEPT !.stage = "serialized", !.order = order,
                           !.bytes = ToBytes(cx.handled.resp, order)]
    /\ UNCHANGED serverVars

CodecNext == CodecParse \/ CodecResolve \/ CodecSerialize

SpecCodec == CodecInit /\ [][CodecNext]_vars

(***************************************************************************)
(* The server: Server::listen and Server::handle_connection.               *)
(***************************************************************************)
CxIdle == CxStart("idle", NoFixture, <<>>, EmptyStore, NotFound)

Init == ServerInit /\ cx = CxIdle

\* TcpListener::bind succeeds
Bind ==
    /\ listener = "unbound"
    /\ listener' = "listening"
    /\ UNCHANGED <<pc, wire, closed, cur, pend, out, result, files,
                   cause, posted, before, nsent, splits, cx>>

\* TcpListener::bind fails: listen returns the error and the process ends
BindFail ==
    /\ listener = "unbound"
    /\ listener' = "failed"
    /\ UNCHANGED <<pc, wire, closed, cur, pend, out, result, files,
                   cause, posted, before, nsent, splits, cx>>

\* listener.accept() returns a stream and its task is spawned
Accept(c) ==
    /\ listener = "listening"
    /\ pc[c] = "unaccepted"
    /\ \A d \in Conns : d < c => pc[d] # "unaccepted"
    /\ pc' = [pc EXCEPT ![c] = "awaiting"]
    /\ UNCHANGED <<listener, wire, closed, cur, pend, out, result, files,
                   cause, posted, before, nsent, splits, cx>>

\* listener.accept() fails: listen returns the error, main returns and the
\* process ends with every connection task
AcceptFail ==
    /\ listener = "listening"
    /\ listener' = "failed"
    /\ pc' = [c \in Conns |-> IF pc[c] = "unaccepted" THEN "unaccepted" ELSE "terminal"]
    /\ wire' = [c \in Conns |-> <<>>]
    /\ cur' = [c \in Conns |-> NoRequest]
    /\ pend' = [c \in Conns |-> NoPend]
    /\ before' = [c \in Conns |-> NoWrite]
    /\ result' = [c \in Conns |-> IF pc[c] \in {"unaccepted", "terminal"} THEN result[c] ELSE "Aborted"]
    /\ cause' = [c \in Conns |-> IF pc[c] \in {"unaccepted", "terminal"} THEN cause[c] ELSE "abort"]
    /\ UNCHANGED <<closed, out, files, posted, nsent, splits, cx>>

\* a client sends the bytes of one message
ClientSend(c, w) ==
    /\ pc[c] \notin {"unaccepted", "terminal"}
    /\ ~closed[c]
    /\ nsent < MaxRequests
    /\ nsent' = nsent + 1
    /\ wire' = [wire EXCEPT ![c] = Append(@, w)]
    /\ UNCHANGED <<listener, pc, closed, cur, pend, out, result, files,
                   cause, posted, before, splits, cx>>

\* a client closes its end of the connection
ClientClose(c) ==
    /\ pc[c] \notin {"unaccepted", "terminal"}
    /\ ~closed[c]
    /\ closed' = [closed EXCEPT ![c] = TRUE]
    /\ UNCHANGED <<listener, pc, wire, cur, pend, out, result, files,
                   cause, posted, before, nsent, splits, cx>>

\* handle_connection returns, were its error to end every connection task
ExitTogether(c, res, why) ==
    /\ pc' = [d \in Conns |-> IF pc[d] = "unaccepted" THEN "unaccepted" ELSE "terminal"]
    /\ wire' = [wire EXCEPT ![c] = <<>>]
    /\ cur' = [cur EXCEPT ![c] = NoRequest]
    /\ pend' = [pend EXCEPT ![c] = NoPend]
    /\ result' = [result EXCEPT ![c] = res]
    /\ cause' = [cause EXCEPT ![c] = why]

\* handle_connection returns: the task ends and its socket is dropped
Exit(c, res, why) ==
    /\ pc' = [pc EXCEPT ![c] = "terminal"]
    /\ wire' = [wire EXCEPT ![c] = <<>>]
    /\ cur' = [cur EXCEPT ![c] = NoRequest]
    /\ pend' = [pend EXCEPT ![c] = NoPend]
    /\ result' = [result EXCEPT ![c] = res]
    /\ cause' = [cause EXCEPT ![c] = why]

\* the loop after from_bytes fails, were the failure skipped
AfterParseSkipping(r) == IF r.ok THEN "dispatching" ELSE "awaiting"

\* the loop after HttpRequest::from_bytes(..)?: on to resolve, or out with the error
AfterParse(r) == IF r.ok THEN "dispatching" ELSE "terminal"

\* reader.next() yields a chunk, which from_bytes parses
OnChunk(c, chunk, rest) ==
    LET r == FromBytes(chunk)
    IN  IF AfterParse(r) = "terminal"
        THEN Exit(c, r.err, "parse")
        ELSE /\ pc' = [pc EXCEPT ![c] = AfterParse(r)]
             /\ wire' = [wire EXCEPT ![c] = rest]
             /\ cur' = [cur EXCEPT ![c] = IF r.ok THEN r.val ELSE NoRequest]
             /\ cause' = [cause EXCEPT ![c] = IF r.ok THEN @ ELSE "parse"]
             /\ UNCHANGED <<pend, result>>

\* the result of handle_connection when reader.next() yields None
EofResult == "EmptyRequestLine"

\* reader.next().await in the loop: one or more whole messages
ReadWhole(c) ==
    /\ pc[c] = "awaiting"
    /\ \E j \in 1 .. Len(wire[c]) :
          OnChunk(c, Concat(SubSeq(wire[c], 1, j)), Drop(wire[c], j))
    /\ UNCHANGED <<listener, closed, out, files, posted, before, nsent, splits, cx>>

\* reader.next().await in the loop: the first bytes of a message only
ReadPart(c) ==
    /\ pc[c] = "awaiting"
    /\ wire[c] # <<>>
    /\ splits < MaxSplits
    /\ splits' = splits + 1
    /\ \E k \in 1 .. (Len(wire[c][1]) - 1) :
          OnChunk(c, Take(wire[c][1], k), <<Drop(wire[c][1], k)>> \o Tail(wire[c]))
    /\ UNCHANGED <<listener, closed, out, files, posted, before, nsent, cx>>

\* reader.next().await in the loop: the stream has ended
ReadEof(c) ==
    /\ pc[c] = "awaiting"
    /\ wire[c] = <<>>
    /\ closed[c]
    /\ Exit(c, EofResult, "eof")
    /\ UNCHANGED <<listener, closed, out, files, posted, before, nsent, splits, cx>>

\* reader.next().await in the loop: the read fails
ReadFail(c) ==
    /\ pc[c] = "awaiting"
    /\ Exit(c, "IO", "io")
    /\ UNCHANGED <<listener, closed, out, files, posted, before, nsent, splits, cx>>

\* the request is one the /files handler answers with std::fs::write
IsFileWrite(request) == MatchRoute(request) = 4 /\ request.line.method = METHOD_POST

\* the file the /files handler names for the request
WrittenFile(request) == TrimStartMatches(request.line.path, FilesPath \o <<"/">>)

\* the connections whose std::fs::write to the file is in progress
Writers(n) == {d \in Conns : pc[d] = "writing" /\ FsKey(WrittenFile(cur[d])) = n}

\* history of the writes to a file: "writing" while one write is in progress,
\* "racing" while writes overlap, then the outcome: "ok" with the body
\* written, "failed", or "raced" for writes that overlapped
PostState(state, body) == [state |-> state, body |-> body]

\* a handler's response, were a 404 or a 500 to end the connection task
RespondFatal(c, resp) ==
    IF resp.status_code \in {STATUS_NOT_FOUND, STATUS_INTERNAL_SERVER_ERROR}
    THEN pend' = [pend EXCEPT ![c] = NoPend] /\ pc' = [pc EXCEPT ![c] = "terminal"]
    ELSE /\ \E order \in Orders(resp.headers) :
               pend' = [pend EXCEPT ![c] = [resp |-> resp, bytes |-> ToBytes(resp, order)]]
         /\ pc' = [pc EXCEPT ![c] = "responding"]

\* the response is serialized and is the next to be written
Respond(c, resp) ==
    /\ \E order \in Orders(resp.headers) :
          pend' = [pend EXCEPT ![c] = [resp |-> resp, bytes |-> ToBytes(resp, order)]]
    /\ pc' = [pc EXCEPT ![c] = "responding"]

\* router.resolve(&request) and response.to_bytes(), for a request whose
\* handler writes no file
Dispatch(c) ==
    /\ pc[c] = "dispatching"
    /\ ~IsFileWrite(cur[c])
    /\ LET h == Resolve(cur[c], files, IoOk)
       IN  files' = h.store /\ Respond(c, h.resp)
    /\ UNCHANGED <<listener, wire, closed, cur, out, result, cause, posted, before, nsent,
                   splits, cx>>

\* router.resolve(&request) reaches std::fs::write, whose File::create
\* creates or truncates the file
CreateFile(c) ==
    /\ pc[c] = "dispatching"
    /\ IsFileWrite(cur[c])
    /\ CanCreate(WrittenFile(cur[c]))
    /\ files' = FsCreate(files, WrittenFile(cur[c]))
    /\ before' = [before EXCEPT ![c] = files[FsKey(WrittenFile(cur[c]))]]
    /\ posted' = [posted EXCEPT ![FsKey(WrittenFile(cur[c]))] =
                     IF Writers(FsKey(WrittenFile(cur[c]))) = {}
                     THEN PostState("writing", <<>>)
                     ELSE PostState("racing", <<>>)]
    /\ pc' = [pc EXCEPT ![c] = "writing"]
    /\ UNCHANGED <<listener, wire, closed, cur, pend, out, result, cause, nsent, splits, cx>>

\* File::create fails: std::fs::write returns Err, the handler answers 500
CreateFileFail(c) ==
    /\ pc[c] = "dispatching"
    /\ IsFileWrite(cur[c])
    /\ LET h == Resolve(cur[c], files, IoCreateErr)
       IN  files' = h.store /\ Respond(c, h.resp)
    /\ UNCHANGED <<listener, wire, closed, cur, out, result, cause, posted, before, nsent,
                   splits, cx>>

\* write_all of std::fs::write, the handler's response and response.to_bytes()
WriteFile(c) ==
    /\ pc[c] = "writing"
    /\ \E io \in IoOutcomes(cur[c].body) \ {IoCreateErr} :
          LET w == FsWriteAll(files, WrittenFile(cur[c]), cur[c].body, io)
          IN  /\ files' = w.store
              /\ Respond(c, IF w.ok THEN Created ELSE InternalServerError)
              /\ posted' = [posted EXCEPT ![FsKey(WrittenFile(cur[c]))] =
                               IF @.state = "racing"
                               THEN IF Writers(FsKey(WrittenFile(cur[c]))) = {c}
                                    THEN PostState("raced", <<>>)
                                    ELSE @
                               ELSE IF w.ok THEN PostState("ok", cur[c].body)
                               ELSE PostState("failed", <<>>)]
    /\ before' = [before EXCEPT ![c] = NoWrite]
    /\ UNCHANGED <<listener, wire, closed, cur, out, result, cause, nsent, splits, cx>>

\* the persistence decision, were the comparison to ignore case
PersistIgnoringCase(request) == request.connection \in {KEEP_ALIVE, KeepAliveTitleCase}

\* request.connection != KEEP_ALIVE leaves the loop
Persist(request) == request.connection = KEEP_ALIVE

\* writer.send(..).await, were it to write the response twice
SendTwice(c) ==
    /\ pc[c] = "responding"
    /\ out' = [out EXCEPT ![c] = Append(Append(@, pend[c]), pend[c])]
    /\ IF Persist(cur[c])
       THEN /\ pc' = [pc EXCEPT ![c] = "awaiting"]
            /\ cur' = [cur EXCEPT ![c] = NoRequest]
            /\ pend' = [pend EXCEPT ![c] = NoPend]
            /\ UNCHANGED <<wire, result, cause>>
       ELSE Exit(c, "Ok", "close")
    /\ UNCHANGED <<listener, closed, files, posted, before, nsent, splits, cx>>

\* writer.send(..).await succeeds, then the loop continues or breaks
Send(c) ==
    /\ pc[c] = "responding"
    /\ out' = [out EXCEPT ![c] = Append(@, pend[c])]
    /\ IF Persist(cur[c])
       THEN /\ pc' = [pc EXCEPT ![c] = "awaiting"]
            /\ cur' = [cur EXCEPT ![c] = NoRequest]
            /\ pend' = [pend EXCEPT ![c] = NoPend]
            /\ UNCHANGED <<wire, result, cause>>
       ELSE Exit(c, "Ok", "close")
    /\ UNCHANGED <<listener, closed, files, posted, before, nsent, splits, cx>>

\* writer.send(..).await fails
SendFail(c) ==
    /\ pc[c] = "responding"
    /\ Exit(c, "IO", "io")
    /\ UNCHANGED <<listener, closed, out, files, posted, before, nsent, splits, cx>>

Next ==
    \/ Bind
    \/ BindFail
    \/ \E c \in Conns : Accept(c)
    \/ AcceptFail
    \/ \E c \in Conns, w \in ClientWires : ClientSend(c, w)
    \/ \E c \in Conns : ClientClose(c)
    \/ \E c \in Conns : ReadWhole(c)
    \/ \E c \in Conns : ReadPart(c)
    \/ \E c \in Conns : ReadEof(c)
    \/ \E c \in Conns : ReadFail(c)
    \/ \E c \in Conns : Dispatch(c)
    \/ \E c \in Conns : CreateFile(c)
    \/ \E c \in Conns : CreateFileFail(c)
    \/ \E c \in Conns : WriteFile(c)
    \/ \E c \in Conns : Send(c)
    \/ \E c \in Conns : SendFail(c)

Spec == Init /\ [][Next]_vars

(***************************************************************************)
(* Claims about the codec and the router, checked under SpecCodec.         *)
(***************************************************************************)
IsFixture == cx.fx # NoFixture

Parsed == cx.stage \in {"parsed", "rejected"}

\* a decimal number as the claims mean it: one or more digits
IsNumber(v) == v # <<>> /\ \A i \in 1 .. Len(v) : v[i] \in DigitSet

HasContentLength(fx) ==
    fx.headers # <<>> /\ fx.headers[Len(fx.headers)][1] = CONTENT_LENGTH

DeclaredLength(fx) == fx.headers[Len(fx.headers)][2]

\* C5: a request with Content-Length n is rejected with InvalidContentLength
\* when the number of body bytes after the blank line is not n, is accepted
\* only when it is n, and is rejected with InvalidContentLength when the
\* value is no number.
C5_ContentLengthExact ==
    (Parsed /\ IsFixture /\ HasContentLength(cx.fx)) =>
        LET v == DeclaredLength(cx.fx)
        IN  /\ ~IsNumber(v) => (~cx.parsed.ok /\ cx.parsed.err = "InvalidContentLength")
            /\ (IsNumber(v) /\ Len(cx.fx.body) # DecimalValue(v))
                   => (~cx.parsed.ok /\ cx.parsed.err = "InvalidContentLength")
            /\ (IsNumber(v) /\ cx.parsed.ok) => Len(cx.fx.body) = DecimalValue(v)

RECURSIVE FixtureHeaderMap(_)
FixtureHeaderMap(hs) ==
    IF hs = <<>> THEN NoHeaders
    ELSE Insert(FixtureHeaderMap(SubSeq(hs, 1, Len(hs) - 1)), hs[Len(hs)][1], hs[Len(hs)][2])

\* the Request value a fixture stands for
FixtureRequest(fx) ==
    LET h == FixtureHeaderMap(fx.headers)
    IN  [line |-> [method |-> fx.method, path |-> fx.path, version |-> HTTP_VERSION_1_1],
         headers |-> h,
         connection |-> IF CONNECTION \in DOMAIN h THEN h[CONNECTION] ELSE KEEP_ALIVE,
         body |-> fx.body]

\* C6: parsing the wire bytes of a Request whose body length equals its
\* Content-Length header yields that Request: same request line, header
\* mapping, connection value and body bytes.
C6_RoundTrip ==
    (Parsed /\ IsFixture /\ HasContentLength(cx.fx)
        /\ DeclaredLength(cx.fx) = ToDecimal(Len(cx.fx.body)))
    => (cx.parsed.ok /\ cx.request = FixtureRequest(cx.fx))

\* the framing of serialized bytes as a client reads it: the head up to the
\* first blank line, split into lines, and the bytes after the blank line
HeadEnd(bytes) == Find(bytes, CRLF \o CRLF)

HeadLines(bytes) == Split(Take(bytes, HeadEnd(bytes) - 1), CRLF)

AfterHead(bytes) == Drop(bytes, HeadEnd(bytes) + 3)

Transmitted(resp) ==
    IF CONTENT_ENCODING \in DOMAIN resp.headers /\ resp.headers[CONTENT_ENCODING] = ENCODING_GZIP
    THEN GzEncode(resp.body)
    ELSE resp.body

\* C7: the serialized bytes of a response are the status line, its headers,
\* and then, for an empty body, a blank line and no Content-Length header, or,
\* for a non-empty body, a Content-Length header whose value is the number of
\* bytes transmitted after the blank line (the gzip of the body when
\* Content-Encoding is gzip, the body otherwise), with nothing after them.
C7_ResponseFraming ==
    cx.stage = "serialized" =>
        LET resp  == cx.handled.resp
            lines == HeadLines(cx.bytes)
            after == AfterHead(cx.bytes)
            cl    == {i \in 2 .. Len(lines) : StartsWith(lines[i], CONTENT_LENGTH \o HeaderSep)}
            own   == {i \in 2 .. Len(lines) : i \notin cl}
        IN  /\ HeadEnd(cx.bytes) > 0
            /\ lines[1] = HTTP_VERSION_1_1 \o <<" ">> \o StatusAsStr(resp.status_code)
            /\ {lines[i] : i \in own} = {k \o HeaderSep \o resp.headers[k] : k \in DOMAIN resp.headers}
            /\ Cardinality(own) = Cardinality(DOMAIN resp.headers)
            /\ resp.body = <<>> => (cl = {} /\ after = <<>>)
            /\ resp.body # <<>> =>
                   /\ cl = {Len(lines)}
                   /\ Drop(lines[Len(lines)], Len(CONTENT_LENGTH \o HeaderSep)) = ToDecimal(Len(after))
                   /\ after = Transmitted(resp)

C7_Witness ==
    /\ cx.stage = "serialized"
    /\ cx.handled.resp.body # <<>>
    /\ CONTENT_ENCODING \in DOMAIN cx.handled.resp.headers
    /\ cx.handled.resp.headers[CONTENT_ENCODING] = ENCODING_GZIP
    /\ Len(AfterHead(cx.bytes)) # Len(cx.handled.resp.body)

\* the text of rest before its first '/', or all of it
UpToSlash(rest) ==
    LET k == CHOOSE n \in 0 .. Len(rest) :
                 /\ \A i \in 1 .. n : rest[i] # "/"
                 /\ n = Len(rest) \/ rest[n + 1] = "/"
    IN  Take(rest, k)

\* the first segment with one leading '/' stripped
SegmentStripOne(path) ==
    UpToSlash(IF path # <<>> /\ path[1] = "/" THEN Tail(path) ELSE path)

\* the first segment with every leading '/' stripped
SegmentStripAll(path) ==
    LET k == CHOOSE n \in 0 .. Len(path) :
                 /\ \A i \in 1 .. n : path[i] = "/"
                 /\ n = Len(path) \/ path[n + 1] # "/"
    IN  UpToSlash(Drop(path, k))

HandlerAt(i, request, store, io) ==
    CASE i = 1 -> RootHandler(request, store)
      [] i = 2 -> EchoHandler(request, store)
      [] i = 3 -> UserAgentHandler(request, store)
      [] i = 4 -> FilesHandler(request, store, io)

\* what resolve returns when the first route, in registration order, whose
\* segment equals the request's handles it, and 404 with no body and no
\* headers is the answer when there is none
FirstMatchHandles(seg(_)) ==
    LET hits == {i \in 1 .. Len(Routes) : seg(cx.request.line.path) = seg(Routes[i])}
    IN  IF hits = {}
        THEN /\ cx.handled.resp.status_code = STATUS_NOT_FOUND
             /\ cx.handled.resp.body = <<>>
             /\ cx.handled.resp.headers = NoHeaders
             /\ cx.handled.store = cx.store
        ELSE \E i \in hits :
                /\ \A j \in hits : i <= j
                /\ cx.handled = HandlerAt(i, cx.request, cx.store, cx.io)

Resolved == cx.stage = "resolved" /\ IsFixture

\* C8 as stated: the segment is the text after one leading '/' up to the
\* next '/'; the first registered route with an equal segment handles the
\* request, and without one the answer is 404 with no body and no headers.
C8_FirstSegmentStripOne == Resolved => FirstMatchHandles(SegmentStripOne)

\* C8 amended: the same with the segment taken after every leading '/'.
C8_FirstSegmentStripAll == Resolved => FirstMatchHandles(SegmentStripAll)

C8_Witness ==
    /\ Resolved
    /\ StartsWith(cx.request.line.path, <<"/", "/">>)
    /\ cx.request.line.method = METHOD_GET
    /\ cx.handled.resp.status_code = STATUS_OK
    /\ CONTENT_TYPE \in DOMAIN cx.handled.resp.headers

ALLOW == <<"A", "l", "l", "o", "w">>

SupportedMethods(i) == IF i = 4 THEN {METHOD_GET, METHOD_POST} ELSE {METHOD_GET}

\* C10: on every registered route, a method the route does not support is
\* answered 405 Method Not Allowed with an Allow header.
C10_NotAllowedHasAllow ==
    Resolved =>
        \A i \in 1 .. Len(Routes) :
            (MatchRoute(cx.request) = i /\ cx.request.line.method \notin SupportedMethods(i))
            => /\ cx.handled.resp.status_code = STATUS_NOT_ALLOWED
               /\ ALLOW \in DOMAIN cx.handled.resp.headers

\* the tokens of a header value: split on commas, each piece trimmed
CommaTokens(value) ==
    LET pieces == Split(value, <<",">>)
    IN  {Trim(pieces[i]) : i \in 1 .. Len(pieces)}

\* the request asks for gzip: an Accept-Encoding header with a token "gzip"
AsksGzip(request) ==
    /\ ACCEPT_ENCODING \in DOMAIN request.headers
    /\ ENCODING_GZIP \in CommaTokens(request.headers[ACCEPT_ENCODING])

\* the handler passed its headers through accept_encoding and answered with them
Negotiated == Resolved /\ MatchRoute(cx.request) \in {2, 3, 4} /\ cx.handled.resp.status_code = STATUS_OK

\* C11: the response headers carry Content-Encoding: gzip if and only if the
\* request has an Accept-Encoding header whose value, split on commas with
\* every token trimmed, contains the token "gzip"; with any other value, or
\* without the header, no Content-Encoding header is set.
C11_GzipIffCommaToken ==
    Negotiated =>
        IF AsksGzip(cx.request)
        THEN /\ CONTENT_ENCODING \in DOMAIN cx.handled.resp.headers
             /\ cx.handled.resp.headers[CONTENT_ENCODING] = ENCODING_GZIP
        ELSE CONTENT_ENCODING \notin DOMAIN cx.handled.resp.headers

\* the header lines of the input: the lines after the request line, up to
\* the first empty one
InputHeaderLines == TakeWhileNonEmpty(Tail(Split(FromUtf8Lossy(cx.raw), CRLF)))

HasSeparator(line) == Find(line, HeaderSep) # 0

\* the text of a header line before its first ": "
KeyOfLine(line) == Take(line, Find(line, HeaderSep) - 1)

\* all the text of a header line after its first ": "
ValueOfLine(line) == Drop(line, Find(line, HeaderSep) + Len(HeaderSep) - 1)

\* C15: each header line is split at its first ": " only: the key is the
\* text before it and the value all the text after it, later ": " included;
\* a line without ": " makes parsing fail, and parsing fails over a header
\* line for no other reason, so a line with nothing after ": " is accepted
\* with the empty value.
C15_SplitAtFirstSeparator ==
    Parsed =>
        LET lines == InputHeaderLines
        IN  /\ (\E i \in 1 .. Len(lines) : ~HasSeparator(lines[i])) => ~cx.parsed.ok
            /\ cx.parsed.err \in {"MissingHeaderKey", "MissingHeaderValue"}
                   => \E i \in 1 .. Len(lines) : ~HasSeparator(lines[i])
            /\ cx.parsed.ok =>
                   \A i \in 1 .. Len(lines) :
                       (\A j \in (i + 1) .. Len(lines) : KeyOfLine(lines[j]) # KeyOfLine(lines[i]))
                       => /\ KeyOfLine(lines[i]) \in DOMAIN cx.request.headers
                          /\ cx.request.headers[KeyOfLine(lines[i])] = ValueOfLine(lines[i])

(***************************************************************************)
(* Claims about the connection loop and the file storage, checked under    *)
(* Spec.                                                                   *)
(***************************************************************************)
ParseErrors ==
    {"MissingRequestLine", "MissingMethod", "MissingPath", "MissingVersion",
     "UnsupportedVersion", "MissingHeaderKey", "MissingHeaderValue", "InvalidContentLength"}

\* a finished connection task does nothing more
Finished(c) == pc'[c] = "terminal" /\ out'[c] = out[c] /\ cur'[c] = cur[c] /\ result'[c] = result[c]

\* the connection value of a request: its Connection header, "keep-alive" without one
DerivedConnection(request) ==
    IF CONNECTION \in DOMAIN request.headers THEN request.headers[CONNECTION] ELSE KEEP_ALIVE

\* C1: once the response to a request is written, the loop awaits the next
\* request on the socket if and only if the request's connection value (its
\* Connection header, "keep-alive" when absent) is exactly "keep-alive"; for
\* any other value the connection ends after that response and nothing more
\* is processed on it.
C1_Persistence ==
    [][\A c \in Conns :
          /\ out'[c] # out[c] =>
                IF DerivedConnection(cur[c]) = KEEP_ALIVE
                THEN pc'[c] = "awaiting" /\ result'[c] = "running"
                ELSE pc'[c] = "terminal" /\ result'[c] = "Ok"
          /\ pc[c] = "terminal" => Finished(c)]_vars

C1_Witness ==
    \E c, d \in Conns :
        /\ Len(out[c]) = 1 /\ pc[c] = "awaiting" /\ out[c][1].resp.status_code = STATUS_OK
        /\ Len(out[d]) = 1 /\ pc[d] = "terminal" /\ result[d] = "Ok"
        /\ out[d][1].resp.status_code = STATUS_NOT_FOUND

\* C2: awaiting a request, the loop reads until one complete request is
\* there: however the bytes of a valid request are split over socket reads,
\* the loop parses and dispatches exactly that request.
C2_ReadsWholeRequest ==
    [][\A c \in Conns :
          (/\ pc[c] = "awaiting" /\ pc'[c] # "awaiting"
           /\ Len(wire[c]) = 1 /\ wire[c][1] \in ClientWires /\ FromBytes(wire[c][1]).ok
           /\ cause'[c] # "io")
          => (/\ pc'[c] = "dispatching"
              /\ cur'[c] = FromBytes(wire[c][1]).val
              /\ wire'[c] = <<>>)]_vars

\* C3: when the peer closes the socket while the loop awaits a request,
\* handle_connection ends with a success result.
C3_CleanEofIsSuccess == \A c \in Conns : cause[c] = "eof" => result[c] = "Ok"

\* C4: when the bytes read for a request fail to parse, the loop writes no
\* response for them, the connection ends with the parse error, and nothing
\* more is processed on it, however many requests it served before.
C4_ParseFailureFatal ==
    [][\A c \in Conns :
          /\ (cause[c] = "none" /\ cause'[c] = "parse") =>
                /\ out'[c] = out[c]
                /\ files' = files
                /\ pc'[c] = "terminal"
                /\ result'[c] \in ParseErrors
          /\ pc[c] = "terminal" => Finished(c)]_vars

C4_Witness ==
    \E c \in Conns :
        /\ cause[c] = "parse" /\ pc[c] = "terminal" /\ result[c] = "MissingVersion"
        /\ Len(out[c]) = 1

Answers(c) == pc[c] \in {"dispatching", "writing"} /\ pc'[c] = "responding"

IsFileRead(request) == MatchRoute(request) = 4 /\ request.line.method = METHOD_GET

HandlerErrorStatus == {STATUS_NOT_FOUND, STATUS_INTERNAL_SERVER_ERROR}

\* C12: a failing storage operation of the /files handler ends no
\* connection: a GET of a file that cannot be read is answered 404 and a
\* POST whose write fails 500, the task goes on to write that response, and
\* once it is written the connection awaits the next request or ends with
\* success by the keep-alive rule alone; only a failure of the socket write
\* (or the end of the process) keeps the response from being written.
C12_HandlerErrorsAnswered ==
    [][\A c \in Conns :
          /\ (/\ pc[c] \in {"dispatching", "writing"} /\ pc'[c] # pc[c]
              /\ MatchRoute(cur[c]) = 4 /\ cause'[c] # "abort")
             => /\ pc'[c] \in {"writing", "responding"}
                /\ result'[c] = "running"
                /\ cur'[c] = cur[c]
                /\ (IsFileRead(cur[c]) /\ ~FsRead(files, WrittenFile(cur[c])).ok)
                      => pend'[c].resp = NotFound
                /\ (IsFileWrite(cur[c]) /\ pc[c] = "dispatching" /\ pc'[c] = "responding")
                      => pend'[c].resp = InternalServerError
                /\ (IsFileWrite(cur[c]) /\ pc[c] = "writing")
                      => /\ pend'[c].resp \in {Created, InternalServerError}
                         /\ files'[FsKey(WrittenFile(cur[c]))] # WriteAt(files[FsKey(WrittenFile(cur[c]))], cur[c].body)
                               => pend'[c].resp = InternalServerError
          /\ (pc[c] = "responding" /\ pend[c].resp.status_code \in HandlerErrorStatus
              /\ pc'[c] # "responding")
             => \/ /\ out'[c] = Append(out[c], pend[c])
                   /\ IF cur[c].connection = KEEP_ALIVE
                      THEN pc'[c] = "awaiting" /\ result'[c] = "running"
                      ELSE pc'[c] = "terminal" /\ result'[c] = "Ok"
                \/ out'[c] = out[c] /\ cause'[c] \in {"io", "abort"}]_vars

C12_Witness ==
    \E c, d \in Conns :
        /\ Len(out[c]) = 1 /\ out[c][1].resp = InternalServerError /\ pc[c] = "awaiting"
        /\ pc[d] = "responding" /\ IsFileRead(cur[d]) /\ pend[d].resp = NotFound

\* the loop of connection c ends in this step with a parse error or an
\* error of its socket
FailsAlone(c) == cause[c] = "none" /\ cause'[c] \in {"parse", "io"}

\* C13: a parse error or a socket error on one connection ends that
\* connection's loop only: the step leaves every other connection, the
\* listener and the files as they are, so every other connection goes on
\* from where it stood and the accept loop is still listening.
C13_ConnectionIsolation ==
    [][\A c \in Conns :
          FailsAlone(c) =>
             /\ pc'[c] = "terminal"
             /\ listener' = listener /\ listener = "listening"
             /\ files' = files
             /\ \A d \in Conns \ {c} :
                   /\ pc'[d] = pc[d] /\ wire'[d] = wire[d] /\ cur'[d] = cur[d]
                   /\ pend'[d] = pend[d] /\ out'[d] = out[d] /\ result'[d] = result[d]
                   /\ closed'[d] = closed[d]]_vars

C13_Witness ==
    \E c, d \in Conns :
        /\ c # d
        /\ pc[c] = "terminal" /\ cause[c] = "parse" /\ result[c] \in ParseErrors
        /\ pc[d] = "responding" /\ pend[d].resp.status_code = STATUS_OK
        /\ listener = "listening"

\* C14: request and response alternate on a connection: a request is read
\* only when no request is in flight; the request in flight stays the same
\* until its response is written; the response made ready is what the router
\* answers to that request; and writing appends exactly that one response,
\* after which no request is in flight.
C14_StrictAlternation ==
    [][\A c \in Conns :
          /\ (cur'[c] # cur[c] /\ cur'[c] # NoRequest)
                => /\ pc[c] = "awaiting" /\ cur[c] = NoRequest /\ pend[c] = NoPend
                   /\ pc'[c] = "dispatching" /\ out'[c] = out[c]
          /\ pc[c] \in {"dispatching", "writing"}
                => /\ out'[c] = out[c]
                   /\ cur'[c] = cur[c] \/ cause'[c] = "abort"
          /\ Answers(c)
                => /\ \E io \in IoOutcomes(cur[c].body) :
                         pend'[c].resp = Resolve(cur[c], files, io).resp
                   /\ \E order \in Orders(pend'[c].resp.headers) :
                         pend'[c].bytes = ToBytes(pend'[c].resp, order)
          /\ out'[c] # out[c]
                => /\ pc[c] = "responding" /\ pc'[c] \in {"awaiting", "terminal"}
                   /\ out'[c] = Append(out[c], pend[c])
                   /\ cur'[c] = NoRequest /\ pend'[c] = NoPend
          /\ pc[c] \notin {"dispatching", "writing", "responding"}
                => cur[c] = NoRequest /\ pend[c] = NoPend]_vars

C14_Witness ==
    \E c \in Conns :
        /\ Len(out[c]) = 1 /\ out[c][1].resp.status_code = STATUS_OK
        /\ pc[c] = "responding" /\ pend[c].resp.status_code = STATUS_NOT_FOUND

\* C16: a GET /files/<name> routed while a POST /files/<name> with body b
\* of another connection is in progress is answered with the state before
\* that write (404 when there was no file, 200 with what the file held) or
\* with 200 and exactly b.
C16_NoTornRead ==
    [][\A c \in Conns : \A n \in FileNames :
          (/\ Answers(c) /\ IsFileRead(cur[c]) /\ FsKey(WrittenFile(cur[c])) = n
           /\ Writers(n) # {})
          => \E d \in Writers(n) :
                \/ pend'[c].resp.status_code = STATUS_NOT_FOUND /\ before[d] = Absent
                \/ /\ pend'[c].resp.status_code = STATUS_OK
                   /\ before[d] # Absent
                   /\ pend'[c].resp.body = before[d]
                \/ /\ pend'[c].resp.status_code = STATUS_OK
                   /\ pend'[c].resp.body = cur[d].body]_vars
=============================================================================
